---------------------------- MODULE Spec2Model ----------------------------
(***************************************************************************)
(* Verification model of three parts of Open3D:                            *)
(*   - the depth unprojection kernel (t/geometry/kernel/PointCloudImpl.h), *)
(*     checked under SpecUnproject;                                        *)
(*   - the tensor indexing engine (core/Indexer.h), checked under          *)
(*     SpecIndexer; its OffsetCalculator under SpecCalc, its TensorRef     *)
(*     under SpecTensorRef and its checked calls under SpecCalls;          *)
(*   - the normal estimation kernel (t/geometry/kernel/PointCloudImpl.h),  *)
(*     checked under SpecNormals, and the covariance kernel before it,     *)
(*     checked under SpecCovariance.                                       *)
(* Each specification leaves the other parts' variables at their initial   *)
(* values.                                                                 *)
(***************************************************************************)
EXTENDS Integers, Sequences, FiniteSets, TLC

VARIABLES build, args, depth, hostPc, item, count, points, writers,
          total_pts_count, synced, sliceLen

VARIABLES ipc, inTensors, outTensor, reduction_dims, pre, plan,
          orig, vec, yielded, splits

unprojVars == <<build, args, depth, hostPc, item, count, points, writers,
                total_pts_count, synced, sliceLen>>

idxVars == <<ipc, inTensors, outTensor, reduction_dims, pre, plan,
             orig, vec, yielded, splits>>

\* OffsetCalculator: the constructor's arguments, the calculator built and
\* the last call of get.
VARIABLES cpc, given, calc, got

calcVars == <<cpc, given, calc, got>>

\* TensorRef: the reference, the references before each Permute call and the
\* arguments of the calls.
VARIABLES rpc, ref, before, pdims

refVars == <<rpc, ref, before, pdims>>

\* The last checked call on the Indexer (ShrinkDim or an accessor) and its
\* outcome.
VARIABLES call

callVars == <<call>>

\* Normal estimation: the covariance buffer handed to the last call and what
\* the call left in the normal buffer; the point buffer and the neighbour
\* list from which a covariance buffer was computed.
VARIABLES covariance_ptr, normals_ptr, points_ptr, indices_ptr

normVars == <<covariance_ptr, normals_ptr, points_ptr, indices_ptr>>

auxVars == <<calcVars, refVars, callVars, normVars>>

vars == <<unprojVars, idxVars, auxVars>>

NoCalc == [dims_ |-> -1]

CalcIdle ==
    /\ cpc = "new"
    /\ given = <<>>
    /\ calc = NoCalc
    /\ got = <<>>

NoRef == [ndims_ |-> -1]

RefIdle ==
    /\ rpc = "new"
    /\ ref = NoRef
    /\ before = <<>>
    /\ pdims = <<>>

NoCall == [op |-> "none"]

CallIdle == call = NoCall

NormalsIdle ==
    /\ covariance_ptr = <<>>
    /\ normals_ptr = <<>>
    /\ points_ptr = <<>>
    /\ indices_ptr = <<>>

AuxIdle == CalcIdle /\ RefIdle /\ CallIdle /\ NormalsIdle

\* A plan slot that holds no Indexer.
NoPlan == [ndims_ |-> -1]

\* The indexing engine before any Indexer is constructed.
IndexerIdle ==
    /\ ipc = "new"
    /\ inTensors = <<>>
    /\ outTensor = <<>>
    /\ reduction_dims = {}
    /\ pre = NoPlan
    /\ plan = NoPlan
    /\ orig = NoPlan
    /\ vec = <<>>
    /\ yielded = <<>>
    /\ splits = 0

(***************************************************************************)
(* Bounds of the unprojection inputs.                                      *)
(***************************************************************************)
\* Pixel values of the depth image range over 0..MaxPixel.
MaxPixel == 3

\* (rows, cols) of the depth images explored.
ImageShapes == {<<2, 2>>, <<1, 3>>, <<3, 1>>}

\* Values of the stride, depth_scale and depth_max arguments explored.
StrideValues == {1, 2}
ScaleValues == {1, 2}
DepthMaxValues == {2}

NoRow == <<>>

(***************************************************************************)
(* Depth unprojection: UnprojectCPU / UnprojectCUDA.                       *)
(***************************************************************************)
\* rows_strided, cols_strided and n: integer division by the stride.
rows_strided == args.rows \div args.stride
cols_strided == args.cols \div args.stride
n == rows_strided * cols_strided

\* Pixel coordinates sampled by a work item.
PixelY(workload_idx) == (workload_idx \div cols_strided) * args.stride
PixelX(workload_idx) == (workload_idx % cols_strided) * args.stride

\* d = pixel / depth_scale; d > 0 && d < depth_max.  The quotient is compared
\* exactly: with depth_scale > 0, pixel / depth_scale > 0 iff pixel > 0 and
\* pixel / depth_scale < depth_max iff pixel < depth_max * depth_scale.
DepthInRangeInclusive(pixel, depth_scale, depth_max) ==
    pixel >= 0 /\ pixel <= depth_max * depth_scale

DepthInRange(pixel, depth_scale, depth_max) ==
    pixel > 0 /\ pixel < depth_max * depth_scale

\* OPEN3D_ATOMIC_ADD(count_ptr, 1): one indivisible fetch-and-add; ret is the
\* value fetched, mem the value left in the counter.
AtomicAddLost(mem, val) == [ret |-> mem, mem |-> mem]

AtomicAddFetch(mem, val) == [ret |-> mem + val, mem |-> mem + val]

AtomicAdd(mem, val) == [ret |-> mem, mem |-> mem + val]

\* The row a work item writes.  Unproject and RigidTransform map (x, y, d)
\* to camera then world coordinates; the row is identified by the sampled
\* pixel and its depth value.
Vertex(x, y, pixel) == <<x, y, pixel>>

InitUnproject ==
    /\ build \in {"CPU", "CUDA"}
    /\ \E shape \in ImageShapes, stride \in StrideValues,
          depth_scale \in ScaleValues, depth_max \in DepthMaxValues :
          /\ args = [rows |-> shape[1], cols |-> shape[2], stride |-> stride,
                     depth_scale |-> depth_scale, depth_max |-> depth_max]
          /\ depth \in [(0 .. shape[1] - 1) \X (0 .. shape[2] - 1) -> 0 .. MaxPixel]
    /\ hostPc = "launch"
    /\ item = [w \in 0 .. n - 1 |-> [pc |-> "idle", idx |-> -1]]
    /\ count = 0
    /\ points = [s \in 0 .. n - 1 |-> NoRow]
    /\ writers = [s \in 0 .. n - 1 |-> {}]
    /\ total_pts_count = -1
    /\ synced = FALSE
    /\ sliceLen = -1
    /\ IndexerIdle
    /\ AuxIdle

\* launcher.LaunchGeneralKernel(n, ...): the n work items become runnable.
LaunchGeneralKernel ==
    /\ hostPc = "launch"
    /\ item' = [w \in 0 .. n - 1 |-> [pc |-> "todo", idx |-> -1]]
    /\ hostPc' = "kernel"
    /\ UNCHANGED <<build, args, depth, count, points, writers,
                   total_pts_count, synced, sliceLen>>
    /\ UNCHANGED <<idxVars, auxVars>>

\* A work item reads its pixel; a pixel out of range ends the item, a pixel in
\* range takes a slot with one atomic add.  The pixel read is of data no item
\* writes, so it is taken together with the add.
WorkItemTest(w) ==
    /\ hostPc # "launch"
    /\ item[w].pc = "todo"
    /\ LET pixel == depth[<<PixelY(w), PixelX(w)>>]
       IN IF DepthInRange(pixel, args.depth_scale, args.depth_max)
          THEN LET r == AtomicAdd(count, 1)
               IN /\ count' = r.mem
                  /\ item' = [item EXCEPT ![w] = [pc |-> "claimed", idx |-> r.ret]]
          ELSE /\ count' = count
               /\ item' = [item EXCEPT ![w] = [pc |-> "done", idx |-> -1]]
    /\ UNCHANGED <<build, args, depth, hostPc, points, writers,
                   total_pts_count, synced, sliceLen>>
    /\ UNCHANGED <<idxVars, auxVars>>

\* The work item writes its vertex to the slot it took.
WorkItemWrite(w) ==
    /\ item[w].pc = "claimed"
    /\ LET x == PixelX(w)
           y == PixelY(w)
           idx == item[w].idx
       IN /\ points' = [points EXCEPT ![idx] = Vertex(x, y, depth[<<y, x>>])]
          /\ writers' = [writers EXCEPT ![idx] = @ \cup {w}]
    /\ item' = [item EXCEPT ![w].pc = "done"]
    /\ UNCHANGED <<build, args, depth, hostPc, count,
                   total_pts_count, synced, sliceLen>>
    /\ UNCHANGED <<idxVars, auxVars>>

KernelDone == \A w \in 0 .. n - 1 : item[w].pc = "done"

\* Host: total_pts_count = count.  On the CPU the launcher returns when its
\* parallel loop has run every item; on CUDA count.Item<int>() is a blocking
\* device-to-host copy queued behind the kernel.
ReadCount ==
    /\ hostPc = "kernel"
    /\ KernelDone
    /\ total_pts_count' = count
    /\ hostPc' = IF build = "CUDA" THEN "sync" ELSE "slice"
    /\ UNCHANGED <<build, args, depth, item, count, points, writers,
                   synced, sliceLen>>
    /\ UNCHANGED <<idxVars, auxVars>>

\* Host, CUDA build only: cudaDeviceSynchronize().
DeviceSynchronize ==
    /\ hostPc = "sync"
    /\ build = "CUDA"
    /\ KernelDone
    /\ synced' = TRUE
    /\ hostPc' = "slice"
    /\ UNCHANGED <<build, args, depth, item, count, points, writers,
                   total_pts_count, sliceLen>>
    /\ UNCHANGED <<idxVars, auxVars>>

\* Host: points = points.Slice(0, 0, total_pts_count).
Slice ==
    /\ hostPc = "slice"
    /\ sliceLen' = total_pts_count
    /\ hostPc' = "done"
    /\ UNCHANGED <<build, args, depth, item, count, points, writers,
                   total_pts_count, synced>>
    /\ UNCHANGED <<idxVars, auxVars>>

NextUnproject ==
    \/ LaunchGeneralKernel
    \/ \E w \in 0 .. n - 1 : WorkItemTest(w)
    \/ \E w \in 0 .. n - 1 : WorkItemWrite(w)
    \/ ReadCount
    \/ DeviceSynchronize
    \/ Slice

SpecUnproject == InitUnproject /\ [][NextUnproject]_vars

(***************************************************************************)
(* Claims about depth unprojection.                                        *)
(***************************************************************************)
Claimed == {w \in DOMAIN item : item[w].idx # -1}

\* C1: no two work items ever write the same output slot: a work item holds
\* a slot only if its pixel is in range, each such item did exactly one
\* fetch-and-add (the counter equals the number of slot holders), the slots
\* held by distinct items are pairwise different, and no slot has been
\* written by two items.
C1_DistinctSlots ==
    /\ \A w \in Claimed :
          DepthInRange(depth[<<PixelY(w), PixelX(w)>>], args.depth_scale,
                       args.depth_max)
    /\ count = Cardinality(Claimed)
    /\ \A w1, w2 \in Claimed : w1 # w2 => item[w1].idx # item[w2].idx
    /\ \A s \in DOMAIN writers : Cardinality(writers[s]) <= 1

C1_Witness ==
    \E w1, w2 \in Claimed :
       /\ w1 # w2
       /\ item[w1].pc = "done" /\ item[w2].pc = "done"
       /\ writers[item[w1].idx] = {w1} /\ writers[item[w2].idx] = {w2}

\* The pixels the kernel samples and keeps, stated from the arguments alone:
\* the pixels (y, x) on the stride grid, within the strided extent, whose
\* value divided by depth_scale is strictly between 0 and depth_max.
SampledPixels ==
    {p \in DOMAIN depth :
        /\ p[1] % args.stride = 0 /\ p[2] % args.stride = 0
        /\ p[1] \div args.stride < args.rows \div args.stride
        /\ p[2] \div args.stride < args.cols \div args.stride}

ExpectedPixels ==
    {p \in SampledPixels :
        /\ 0 < depth[p]
        /\ depth[p] < args.depth_max * args.depth_scale}

\* C2: once every work item has completed and the host has sliced, the
\* sliced point buffer has one row per sampled in-range pixel: its length is
\* the number of such pixels and its set of rows is the set of their rows,
\* whatever the interleaving was.
C2_SlicedOutput ==
    hostPc = "done" =>
       /\ sliceLen = Cardinality(ExpectedPixels)
       /\ {points[s] : s \in 0 .. sliceLen - 1} =
             {<<p[2], p[1], depth[p]>> : p \in ExpectedPixels}
       /\ \A s1, s2 \in 0 .. sliceLen - 1 : s1 # s2 => points[s1] # points[s2]

\* Reached: a finished run that dropped a sampled pixel and whose rows are
\* not in work-item order.
C2_Witness ==
    /\ hostPc = "done"
    /\ sliceLen >= 2
    /\ Cardinality(ExpectedPixels) < Cardinality(SampledPixels)
    /\ \E w1, w2 \in Claimed : w1 < w2 /\ item[w1].idx > item[w2].idx

\* C3: on the CUDA build the device-wide synchronization precedes the read of
\* the final count: whenever the host has read the counter, the
\* synchronization has been done.
C3_SyncBeforeRead ==
    (build = "CUDA" /\ total_pts_count # -1) => synced

\* The slots of the point buffer that some work item has written.
Written == {s \in DOMAIN writers : writers[s] # {}}

\* C27: the shared counter never exceeds the capacity rows_strided *
\* cols_strided, every slot handed to a work item is below the capacity,
\* every pixel a work item samples is inside the depth image, and once the
\* host has sliced, the written slots are exactly those below the final
\* count.
C27_SlotsAndSlice ==
    /\ count <= n
    /\ \A w \in Claimed : 0 <= item[w].idx /\ item[w].idx < n
    /\ \A w \in DOMAIN item :
          /\ 0 <= PixelX(w) /\ PixelX(w) < args.cols
          /\ 0 <= PixelY(w) /\ PixelY(w) < args.rows
    /\ hostPc = "done" => Written = 0 .. sliceLen - 1

\* Reached: a finished run whose slice keeps two written rows and cuts
\* unwritten ones.
C27_Witness ==
    /\ hostPc = "done"
    /\ sliceLen >= 2
    /\ sliceLen < n
    /\ Written = 0 .. sliceLen - 1

(***************************************************************************)
(* The indexing engine: TensorRef and Indexer.                             *)
(*                                                                         *)
(* Arrays are sequences indexed from 1: axis dim of the code (from 0) is   *)
(* element dim + 1.  Byte strides, data pointers and byte offsets are      *)
(* counted in units of StrideUnit bytes: the tensors explored are views    *)
(* whose strides are multiples of StrideUnit, so that plans beyond the     *)
(* 32-bit bound have few elements.                                         *)
(***************************************************************************)
StrideUnit == 1048576

\* std::numeric_limits<int32_t>::max(), the "2^31 - 1" of CanUse32BitIndexing.
MaxInt32 == 2147483647

\* Extents of the tensors explored range over 1..MaxExtent.
MaxExtent == 3

\* Element strides are those of the layout, times one of these steps (a view
\* that takes every step-th element of a larger buffer).
StepValues == {1, 400}

DtypeByteSizes == {4}

RECURSIVE Prod(_)
Prod(s) == IF s = <<>> THEN 1 ELSE Head(s) * Prod(Tail(s))

\* Row-major (contiguous) and column-major (transposed view) element strides.
RowMajor(shape) ==
    [i \in 1 .. Len(shape) |-> Prod(SubSeq(shape, i + 1, Len(shape)))]

ColMajor(shape) ==
    [i \in 1 .. Len(shape) |-> Prod(SubSeq(shape, 1, i - 1))]

MakeTensor(shape, layout, step, size) ==
    [shape |-> shape,
     strides |-> [i \in 1 .. Len(shape) |->
                    step * (IF layout = "F" THEN ColMajor(shape)[i]
                            ELSE RowMajor(shape)[i])],
     dtype_byte_size |-> size,
     data_ptr |-> 0]

\* TensorRef::TensorRef(const Tensor& t).
TensorRefNoByteSize(t) ==
    [data_ptr_ |-> t.data_ptr,
     ndims_ |-> Len(t.shape),
     dtype_byte_size_ |-> t.dtype_byte_size,
     shape_ |-> t.shape,
     byte_strides_ |-> t.strides]

TensorRefOf(t) ==
    [data_ptr_ |-> t.data_ptr,
     ndims_ |-> Len(t.shape),
     dtype_byte_size_ |-> t.dtype_byte_size,
     shape_ |-> t.shape,
     byte_strides_ |-> [i \in 1 .. Len(t.shape) |->
                          t.strides[i] * t.dtype_byte_size]]

\* TensorRef::Permute(dims) for dims a permutation of [0, ndims): axis i of
\* the result is axis dims[i] of the reference; the entries from ndims on
\* are not touched.
PermuteShapeOnly(tr, dims) ==
    [tr EXCEPT
       !.shape_ = [i \in DOMAIN tr.shape_ |->
                     IF i <= tr.ndims_ THEN tr.shape_[dims[i] + 1]
                     ELSE tr.shape_[i]]]

Permute(tr, dims) ==
    [tr EXCEPT
       !.shape_ = [i \in DOMAIN tr.shape_ |->
                     IF i <= tr.ndims_ THEN tr.shape_[dims[i] + 1]
                     ELSE tr.shape_[i]],
       !.byte_strides_ = [i \in DOMAIN tr.byte_strides_ |->
                            IF i <= tr.ndims_ THEN tr.byte_strides_[dims[i] + 1]
                            ELSE tr.byte_strides_[i]]]

\* Indexer::BroadcastRestride(src, dst_ndims, dst_shape).
BroadcastRestride(src, dst_ndims, dst_shape) ==
    LET ndims_omitted == dst_ndims - src.ndims_
        shape == [i \in 1 .. dst_ndims |->
                    IF i <= ndims_omitted THEN 1
                    ELSE src.shape_[i - ndims_omitted]]
    IN [src EXCEPT
          !.ndims_ = dst_ndims,
          !.shape_ = shape,
          !.byte_strides_ =
             [i \in 1 .. dst_ndims |->
                IF i <= ndims_omitted THEN 0
                ELSE IF shape[i] = 1 /\ dst_shape[i] # 1 THEN 0
                ELSE src.byte_strides_[i - ndims_omitted]]]

\* Indexer::ReductionRestride(dst, src_ndims, src_shape, reduction_dims):
\* the output's stride becomes 0 on every reduced axis (keepdim output).
ReductionRestride(dst, src_ndims, src_shape, rdims) ==
    [dst EXCEPT
       !.byte_strides_ = [i \in 1 .. dst.ndims_ |->
                            IF (i - 1) \in rdims THEN 0
                            ELSE dst.byte_strides_[i]]]

\* Indexer::UpdateMasterStrides(): the default row-major strides of
\* master_shape_.
UpdateMasterStridesColMajor(p) ==
    [p EXCEPT !.master_strides_ = ColMajor(p.master_shape_)]

UpdateMasterStrides(p) ==
    [p EXCEPT !.master_strides_ = RowMajor(p.master_shape_)]

\* The axes in ascending order.
RECURSIVE Ascending(_)
Ascending(S) ==
    IF S = {} THEN <<>>
    ELSE LET m == CHOOSE x \in S : \A y \in S : x <= y
         IN <<m>> \o Ascending(S \ {m})

\* Indexer::ReorderDimensions(reduction_dims): the reduction axes are
\* permuted to the front, each group keeping its order.
ReorderDimensions(p, rdims) ==
    LET dims == Ascending(rdims) \o Ascending((0 .. p.ndims_ - 1) \ rdims)
    IN [p EXCEPT
          !.master_shape_ = [i \in 1 .. p.ndims_ |-> p.master_shape_[dims[i] + 1]],
          !.inputs_ = [k \in DOMAIN p.inputs_ |-> Permute(p.inputs_[k], dims)],
          !.outputs_ = [k \in DOMAIN p.outputs_ |-> Permute(p.outputs_[k], dims)]]

Operands(p) ==
    {p.inputs_[k] : k \in DOMAIN p.inputs_} \cup
    {p.outputs_[k] : k \in DOMAIN p.outputs_}

\* can_coalesce(dim0, dim1) of CoalesceDimensions: either extent is 1, or
\* shape[dim0] * stride[dim0] == stride[dim1] for every operand.
CanCoalesce(p, dim0, dim1) ==
    LET shape0 == p.master_shape_[dim0 + 1]
        shape1 == p.master_shape_[dim1 + 1]
    IN \/ shape0 = 1
       \/ shape1 = 1
       \/ \A tr \in Operands(p) :
             shape0 * tr.byte_strides_[dim0 + 1] = tr.byte_strides_[dim1 + 1]

\* Every operand's stride (and extent) at dim0 replaced by those at dim1.
ReplaceStride(p, dim0, dim1) ==
    LET R(tr) == [tr EXCEPT
                    !.byte_strides_[dim0 + 1] = tr.byte_strides_[dim1 + 1],
                    !.shape_[dim0 + 1] = tr.shape_[dim1 + 1]]
    IN [p EXCEPT
          !.inputs_ = [k \in DOMAIN p.inputs_ |-> R(p.inputs_[k])],
          !.outputs_ = [k \in DOMAIN p.outputs_ |-> R(p.outputs_[k])]]

\* Axis dim merged into axis prev: the extents multiply.
MergeExtent(p, prev, dim) ==
    LET M(tr) == [tr EXCEPT
                    !.shape_[prev + 1] = tr.shape_[prev + 1] * tr.shape_[dim + 1]]
    IN [p EXCEPT
          !.master_shape_[prev + 1] =
              p.master_shape_[prev + 1] * p.master_shape_[dim + 1],
          !.inputs_ = [k \in DOMAIN p.inputs_ |-> M(p.inputs_[k])],
          !.outputs_ = [k \in DOMAIN p.outputs_ |-> M(p.outputs_[k])]]

\* The plan cut to its first nd axes.
Truncate(p, nd) ==
    LET T(tr) == [tr EXCEPT !.ndims_ = nd,
                            !.shape_ = SubSeq(tr.shape_, 1, nd),
                            !.byte_strides_ = SubSeq(tr.byte_strides_, 1, nd)]
    IN [p EXCEPT
          !.ndims_ = nd,
          !.master_shape_ = SubSeq(p.master_shape_, 1, nd),
          !.master_strides_ = SubSeq(p.master_strides_, 1, nd),
          !.inputs_ = [k \in DOMAIN p.inputs_ |-> T(p.inputs_[k])],
          !.outputs_ = [k \in DOMAIN p.outputs_ |-> T(p.outputs_[k])]]

\* The loop of CoalesceDimensions over dim = 1 .. ndims - 1.
RECURSIVE CoalesceFrom(_, _, _)
CoalesceFrom(p, prev_dim, dim) ==
    IF dim >= p.ndims_ THEN Truncate(p, prev_dim + 1)
    ELSE IF CanCoalesce(p, prev_dim, dim)
         THEN IF p.master_shape_[prev_dim + 1] = 1
              THEN CoalesceFrom(
                      [ReplaceStride(p, prev_dim, dim) EXCEPT
                         !.master_shape_[prev_dim + 1] = p.master_shape_[dim + 1]],
                      prev_dim, dim + 1)
              ELSE CoalesceFrom(MergeExtent(p, prev_dim, dim), prev_dim, dim + 1)
         ELSE LET q == prev_dim + 1
              IN IF q # dim
                 THEN CoalesceFrom(
                         [ReplaceStride(p, q, dim) EXCEPT
                            !.master_shape_[q + 1] = p.master_shape_[dim + 1]],
                         q, dim + 1)
                 ELSE CoalesceFrom(p, q, dim + 1)

\* Indexer::CoalesceDimensions().
CoalesceDimensions(p) ==
    IF p.ndims_ <= 1 THEN p
    ELSE UpdateMasterStrides(CoalesceFrom(p, 0, 1))

\* The Indexer constructor up to and including ReorderDimensions.
Restrided(ins, out, rdims) ==
    LET in0 == [k \in DOMAIN ins |-> TensorRefOf(ins[k])]
        out0 == TensorRefOf(out)
        master == IF rdims # {} THEN in0[1].shape_ ELSE out0.shape_
        nd == Len(master)
        out1 == IF rdims # {}
                THEN ReductionRestride(out0, nd, master, rdims)
                ELSE out0
        in1 == [k \in DOMAIN ins |-> BroadcastRestride(in0[k], nd, master)]
    IN UpdateMasterStrides(ReorderDimensions(
          [ndims_ |-> nd,
           master_shape_ |-> master,
           master_strides_ |-> master,
           inputs_ |-> in1,
           outputs_ |-> <<out1>>,
           final_output_ |-> TRUE,
           accumulate_ |-> FALSE], rdims))

\* Indexer::Indexer(input_tensors, output_tensor, dtype_policy,
\* reduction_dims).
NewIndexer(ins, out, rdims) == CoalesceDimensions(Restrided(ins, out, rdims))

NumWorkloadsOutputElements(p) == Prod(p.outputs_[1].shape_)

\* Indexer::NumWorkloads().
NumWorkloads(p) == Prod(p.master_shape_)

\* Indexer::IsReductionDim(dim).
IsReductionDimNoExtent(p, dim) ==
    p.outputs_[1].byte_strides_[dim + 1] = 0

IsReductionDim(p, dim) ==
    p.outputs_[1].byte_strides_[dim + 1] = 0 /\ p.master_shape_[dim + 1] > 1

\* The loop of GetWorkloadDataPtr from axis i (from 1) on.
RECURSIVE WorkloadOffset(_, _, _, _)
WorkloadOffset(p, tr, workload_idx, i) ==
    IF i > p.ndims_ THEN 0
    ELSE (workload_idx \div p.master_strides_[i]) * tr.byte_strides_[i]
         + WorkloadOffset(p, tr, workload_idx % p.master_strides_[i], i + 1)

nullptr == -1

\* Indexer::GetWorkloadDataPtr(tr, workload_idx).
GetWorkloadDataPtrNoBase(p, tr, workload_idx) ==
    IF workload_idx < 0 THEN nullptr
    ELSE WorkloadOffset(p, tr, workload_idx, 1)

GetWorkloadDataPtrContiguous(p, tr, workload_idx) ==
    IF workload_idx < 0 THEN nullptr
    ELSE tr.data_ptr_ + workload_idx * tr.dtype_byte_size_

GetWorkloadDataPtr(p, tr, workload_idx) ==
    IF workload_idx < 0 THEN nullptr
    ELSE tr.data_ptr_ + WorkloadOffset(p, tr, workload_idx, 1)

\* Indexer::GetInputPtr(input_idx, workload_idx).
GetInputPtr(p, input_idx, workload_idx) ==
    IF input_idx < 0 \/ input_idx >= Len(p.inputs_) THEN nullptr
    ELSE GetWorkloadDataPtr(p, p.inputs_[input_idx + 1], workload_idx)

\* Indexer::GetOutputPtr(workload_idx).
GetOutputPtr(p, workload_idx) ==
    GetWorkloadDataPtr(p, p.outputs_[1], workload_idx)

\* The largest byte offset the plan reaches in operand tr.
MaxOffset(p, tr) ==
    LET span == [i \in 1 .. p.ndims_ |->
                   (p.master_shape_[i] - 1) * tr.byte_strides_[i]]
        RECURSIVE Sum(_)
        Sum(i) == IF i > p.ndims_ THEN 0 ELSE span[i] + Sum(i + 1)
    IN Sum(1)

\* Indexer::CanUse32BitIndexing(): every operand's maximum offset in bytes
\* is smaller than 2^31 - 1.  An offset of k units is k * StrideUnit bytes.
CanUse32BitInputsOnly(p) ==
    \A k \in DOMAIN p.inputs_ :
       MaxOffset(p, p.inputs_[k]) <= (MaxInt32 - 1) \div StrideUnit

CanUse32BitIndexing(p) ==
    \A tr \in Operands(p) : MaxOffset(p, tr) <= (MaxInt32 - 1) \div StrideUnit

\* Indexer::ShrinkDim(dim, start, size): every operand's data pointer moves
\* to index start of the axis and the master extent of the axis becomes
\* size.  The operands' own shape_ entries are left as they are.
ShrinkDimNoOffset(p, dim, start, size) ==
    UpdateMasterStrides([p EXCEPT !.master_shape_[dim + 1] = size])

ShrinkDim(p, dim, start, size) ==
    LET S(tr) == [tr EXCEPT
                    !.data_ptr_ = tr.data_ptr_ + tr.byte_strides_[dim + 1] * start]
    IN UpdateMasterStrides(
          [p EXCEPT
             !.master_shape_[dim + 1] = size,
             !.inputs_ = [k \in DOMAIN p.inputs_ |-> S(p.inputs_[k])],
             !.outputs_ = [k \in DOMAIN p.outputs_ |-> S(p.outputs_[k])]])

\* The span of axis dim: the largest (extent - 1) * stride of an operand.
Span(p, dim) ==
    LET spans == {(p.master_shape_[dim + 1] - 1) * tr.byte_strides_[dim + 1] :
                     tr \in Operands(p)}
    IN CHOOSE x \in spans : \A y \in spans : x >= y

\* The axis SplitLargestDim splits: the largest span, the last such axis.
DimToSplit(p) ==
    CHOOSE d \in 0 .. p.ndims_ - 1 :
       \A e \in 0 .. p.ndims_ - 1 :
          \/ Span(p, d) > Span(p, e)
          \/ Span(p, d) = Span(p, e) /\ d >= e

CanSplit(p) == p.ndims_ >= 1 /\ p.master_shape_[DimToSplit(p) + 1] >= 2

\* Indexer::SplitLargestDim(): the returned copy iterates the first half of
\* the largest-span axis, this Indexer the second half.
SplitLargestDim(p) ==
    LET dim_to_split == DimToSplit(p)
        overlaps == IsReductionDim(p, dim_to_split)
        copy_size == p.master_shape_[dim_to_split + 1] \div 2
        this_size == p.master_shape_[dim_to_split + 1] - copy_size
    IN [copy |-> [ShrinkDim(p, dim_to_split, 0, copy_size) EXCEPT
                    !.final_output_ = p.final_output_ /\ ~overlaps],
        this |-> [ShrinkDim(p, dim_to_split, copy_size, this_size) EXCEPT
                    !.accumulate_ = p.accumulate_ \/ overlaps]]

(***************************************************************************)
(* The tensors an Indexer is constructed from.                             *)
(***************************************************************************)
\* Ranks of the tensors explored, and numbers of inputs of a broadcasting
\* operation.
Ranks == {0, 1, 2}
InputCounts == {1, 2}

ShapesOfRank(r) == [1 .. r -> 1 .. MaxExtent]

Shapes == UNION {ShapesOfRank(r) : r \in Ranks}

\* The shapes that broadcast to shape dst: right-aligned, each extent 1 or
\* the extent of dst.
BroadcastableTo(dst) ==
    {s \in Shapes :
        /\ Len(s) <= Len(dst)
        /\ \A i \in 1 .. Len(s) :
              s[i] = 1 \/ s[i] = dst[i + Len(dst) - Len(s)]}

\* The keepdim output shape of reducing shape src over the axes rdims.
ReductionShape(src, rdims) ==
    [i \in 1 .. Len(src) |-> IF (i - 1) \in rdims THEN 1 ELSE src[i]]

\* The example of BroadcastRestride's documentation.
DocSrc ==
    [shape |-> <<2, 1, 1, 3>>, strides |-> <<3, 3, 3, 1>>,
     dtype_byte_size |-> 1, data_ptr |-> 0]

DocDst ==
    [shape |-> <<2, 2, 2, 1, 3>>, strides |-> <<12, 6, 3, 3, 1>>,
     dtype_byte_size |-> 1, data_ptr |-> 0]

UnprojectIdle ==
    /\ build = "CPU"
    /\ args = [rows |-> 0, cols |-> 0, stride |-> 1,
               depth_scale |-> 1, depth_max |-> 1]
    /\ depth = <<>>
    /\ hostPc = "idle"
    /\ item = <<>>
    /\ count = 0
    /\ points = <<>>
    /\ writers = <<>>
    /\ total_pts_count = -1
    /\ synced = FALSE
    /\ sliceLen = -1

InitIndexer == IndexerIdle /\ UnprojectIdle /\ AuxIdle

\* The constructor's result and, in pre, the plan as restrided and reordered
\* before CoalesceDimensions.
Built(ins, out, rdims) ==
    /\ inTensors' = ins
    /\ outTensor' = out
    /\ reduction_dims' = rdims
    /\ pre' = Restrided(ins, out, rdims)
    /\ plan' = NewIndexer(ins, out, rdims)
    /\ ipc' = "built"
    /\ UNCHANGED <<orig, vec, yielded, splits>>

\* Indexer(input_tensors, output_tensor) of a broadcasting operation.
ConstructBroadcast ==
    /\ ipc = "new"
    /\ \E oshape \in Shapes, olayout \in {"C", "F"}, step \in StepValues,
          size \in DtypeByteSizes, nin \in InputCounts :
          \E ishapes \in [1 .. nin -> BroadcastableTo(oshape)],
             ilayouts \in [1 .. nin -> {"C", "F"}] :
             Built([k \in 1 .. nin |->
                      MakeTensor(ishapes[k], ilayouts[k], step, size)],
                   MakeTensor(oshape, olayout, step, size), {})
    /\ UNCHANGED <<unprojVars, auxVars>>

\* Indexer({src}, dst) of the documentation's broadcast example.
ConstructDocExample ==
    /\ ipc = "new"
    /\ Built(<<DocSrc>>, DocDst, {})
    /\ UNCHANGED <<unprojVars, auxVars>>

\* Indexer({input}, output, dtype_policy, reduction_dims) of a reduction.
ConstructReduction ==
    /\ ipc = "new"
    /\ \E ishape \in Shapes \ {<<>>}, ilayout \in {"C", "F"},
          olayout \in {"C", "F"}, step \in StepValues, size \in DtypeByteSizes :
          \E rdims \in (SUBSET (0 .. Len(ishape) - 1)) \ {{}} :
             Built(<<MakeTensor(ishape, ilayout, step, size)>>,
                   MakeTensor(ReductionShape(ishape, rdims), olayout, step, size),
                   rdims)
    /\ UNCHANGED <<unprojVars, auxVars>>

\* indexer.ShrinkDim(dim, start, size) with start + size within the extent.
DoShrinkDim ==
    /\ ipc = "built"
    /\ \E dim \in 0 .. plan.ndims_ - 1 :
          \E start \in 0 .. plan.master_shape_[dim + 1] - 1 :
             \E size \in 1 .. plan.master_shape_[dim + 1] - start :
                plan' = ShrinkDim(plan, dim, start, size)
    /\ UNCHANGED <<ipc, inTensors, outTensor, reduction_dims, pre,
                   orig, vec, yielded, splits>>
    /\ UNCHANGED <<unprojVars, auxVars>>

\* copy = indexer.SplitLargestDim(): the caller goes on with the Indexer
\* itself (the second half) or with the returned copy (the first half).
DoSplitLargestDim ==
    /\ ipc = "built"
    /\ CanSplit(plan)
    /\ LET r == SplitLargestDim(plan)
       IN plan' \in {r.this, r.copy}
    /\ UNCHANGED <<ipc, inTensors, outTensor, reduction_dims, pre,
                   orig, vec, yielded, splits>>
    /\ UNCHANGED <<unprojVars, auxVars>>

\* indexer.SplitTo32BitIndexing().begin(): the iterator holds a copy of the
\* Indexer.
IterBegin ==
    /\ ipc = "built"
    /\ orig' = plan
    /\ vec' = <<plan>>
    /\ yielded' = <<>>
    /\ splits' = 0
    /\ ipc' = "iter"
    /\ UNCHANGED <<inTensors, outTensor, reduction_dims, pre, plan>>
    /\ UNCHANGED <<unprojVars, auxVars>>

\* One turn of the iterator's loop: the last Indexer of vec_ cannot use
\* 32-bit indexing and is split; it keeps the second half and the first half
\* is pushed behind it.
IterSplit ==
    /\ ipc = "iter"
    /\ vec # <<>>
    /\ ~CanUse32BitIndexing(vec[Len(vec)])
    /\ CanSplit(vec[Len(vec)])
    /\ LET r == SplitLargestDim(vec[Len(vec)])
       IN vec' = SubSeq(vec, 1, Len(vec) - 1) \o <<r.this, r.copy>>
    /\ splits' = splits + 1
    /\ UNCHANGED <<ipc, inTensors, outTensor, reduction_dims, pre, plan,
                   orig, yielded>>
    /\ UNCHANGED <<unprojVars, auxVars>>

\* The loop ends on an Indexer that can use 32-bit indexing: operator*
\* hands it to the caller.
IterYield ==
    /\ ipc = "iter"
    /\ vec # <<>>
    /\ CanUse32BitIndexing(vec[Len(vec)])
    /\ yielded' = Append(yielded, vec[Len(vec)])
    /\ ipc' = "at"
    /\ UNCHANGED <<inTensors, outTensor, reduction_dims, pre, plan,
                   orig, vec, splits>>
    /\ UNCHANGED <<unprojVars, auxVars>>

\* operator++: the Indexer handed out is popped.
IterIncrement ==
    /\ ipc = "at"
    /\ vec' = SubSeq(vec, 1, Len(vec) - 1)
    /\ ipc' = "iter"
    /\ UNCHANGED <<inTensors, outTensor, reduction_dims, pre, plan,
                   orig, yielded, splits>>
    /\ UNCHANGED <<unprojVars, auxVars>>

\* The iterator equals end(): vec_ is empty.
IterEnd ==
    /\ ipc = "iter"
    /\ vec = <<>>
    /\ ipc' = "done"
    /\ UNCHANGED <<inTensors, outTensor, reduction_dims, pre, plan,
                   orig, vec, yielded, splits>>
    /\ UNCHANGED <<unprojVars, auxVars>>

NextIndexer ==
    \/ ConstructBroadcast
    \/ ConstructDocExample
    \/ ConstructReduction
    \/ DoShrinkDim
    \/ DoSplitLargestDim
    \/ IterBegin
    \/ IterSplit
    \/ IterYield
    \/ IterIncrement
    \/ IterEnd

SpecIndexer == InitIndexer /\ [][NextIndexer]_vars

(***************************************************************************)
(* OffsetCalculator<NARGS, index_t = uint32_t>.                            *)
(*                                                                         *)
(* A 64-bit extent is a record [wraps, rem] standing for                   *)
(* wraps * 2^32 + rem; its narrowing to index_t is rem.  Strides and       *)
(* offsets are counted in units of StrideUnit bytes, so that 2^32 bytes    *)
(* are IndexModulus units and the narrowing of k units is                  *)
(* k % IndexModulus.  Linear indices are below 2^31.                       *)
(***************************************************************************)
\* static constexpr int64_t MAX_DIMS = 10.
MAX_DIMS == 10

\* 2^32 bytes, the modulus of uint32_t, in units of StrideUnit bytes.
IndexModulus == 2 * (MaxInt32 \div StrideUnit + 1)

\* The arithmetic of index_t on byte quantities.
Wrap30(units) == units % (IndexModulus \div 4)

Wrap32(units) == units % IndexModulus

\* The extents given to the constructor: 1 .. MaxExtent, 2^32 and 2^32 + 1.
CalcSizes ==
    {[wraps |-> 0, rem |-> r] : r \in 1 .. MaxExtent} \cup
    {[wraps |-> 1, rem |-> r] : r \in {0, 1}}

\* The strides given to the constructor, in units: the last is beyond 2^32
\* bytes.
CalcStrides == {0, 1, 1000, IndexModulus + 1}

\* Axes of the arrays given, values of dims (one beyond MAX_DIMS), of
\* NARGS and of linear_idx.
CalcAxes == {1, 2}
CalcDims == {0, 1, 2, MAX_DIMS + 1}
CalcNArgs == {1, 2}
LinearIdxs == 0 .. 5

\* OffsetCalculator(dims, sizes, strides): sizes_ and strides_ are index_t,
\* padded with extent 1 and stride 0 from dims on.
NewCalc(dims, sizes, strides) ==
    [dims_ |-> dims,
     sizes_ |-> [i \in 1 .. MAX_DIMS |->
                   IF i <= dims THEN sizes[i].rem ELSE 1],
     strides_ |-> [i \in 1 .. MAX_DIMS |->
                     [arg \in DOMAIN strides |->
                        IF i <= dims THEN Wrap32(strides[arg][i]) ELSE 0]]]

\* The loop of get from axis dim on (dim from 0), with the offsets so far.
RECURSIVE GetLoop(_, _, _, _)
GetLoop(c, dim, linear_idx, offsets) ==
    IF dim >= MAX_DIMS \/ dim = c.dims_
    THEN [outcome |-> "value", offsets |-> offsets]
    ELSE IF c.sizes_[dim + 1] = 0
         THEN [outcome |-> "undefined", offsets |-> <<>>]
         ELSE LET mod == linear_idx % c.sizes_[dim + 1]
              IN GetLoop(c, dim + 1, linear_idx \div c.sizes_[dim + 1],
                         [arg \in DOMAIN offsets |->
                            Wrap32(offsets[arg]
                                   + mod * c.strides_[dim + 1][arg])])

RECURSIVE GetLoopNoCarry(_, _, _, _)
GetLoopNoCarry(c, dim, linear_idx, offsets) ==
    IF dim >= MAX_DIMS \/ dim = c.dims_
    THEN [outcome |-> "value", offsets |-> offsets]
    ELSE IF c.sizes_[dim + 1] = 0
         THEN [outcome |-> "undefined", offsets |-> <<>>]
         ELSE LET mod == linear_idx % c.sizes_[dim + 1]
              IN GetLoopNoCarry(c, dim + 1, linear_idx,
                                [arg \in DOMAIN offsets |->
                                   Wrap32(offsets[arg]
                                          + mod * c.strides_[dim + 1][arg])])

\* OffsetCalculator::get(linear_idx).  A stored extent of 0 makes
\* linear_idx % 0 undefined.
GetNoCarry(c, linear_idx) ==
    GetLoopNoCarry(c, 0, linear_idx, [arg \in DOMAIN c.strides_[1] |-> 0])

Get(c, linear_idx) ==
    GetLoop(c, 0, linear_idx, [arg \in DOMAIN c.strides_[1] |-> 0])

\* calc = OffsetCalculator<NARGS>(dims, sizes, strides); more than MAX_DIMS
\* axes are an error.
ConstructCalc ==
    /\ cpc = "new"
    /\ \E dims \in CalcDims, nargs \in CalcNArgs :
          \E sizes \in [CalcAxes -> CalcSizes],
             strides \in [1 .. nargs -> [CalcAxes -> CalcStrides]] :
             /\ given' = [dims |-> dims, sizes |-> sizes, strides |-> strides]
             /\ IF dims > MAX_DIMS
                THEN cpc' = "error" /\ calc' = NoCalc
                ELSE cpc' = "built" /\ calc' = NewCalc(dims, sizes, strides)
    /\ got' = <<>>
    /\ UNCHANGED <<unprojVars, idxVars, refVars, callVars, normVars>>

\* offsets = calc.get(linear_idx).  With an undefined division the call
\* traps or goes on with an unspecified result.
CallGet ==
    /\ cpc = "built"
    /\ \E linear_idx \in LinearIdxs :
          LET r == Get(calc, linear_idx)
          IN IF r.outcome = "value"
             THEN got' = [linear_idx |-> linear_idx, outcome |-> "value",
                          offsets |-> r.offsets]
             ELSE \E o \in {"trap", "unspecified"} :
                     got' = [linear_idx |-> linear_idx, outcome |-> o,
                             offsets |-> <<>>]
    /\ cpc' = "got"
    /\ UNCHANGED <<given, calc>>
    /\ UNCHANGED <<unprojVars, idxVars, refVars, callVars, normVars>>

InitCalc ==
    /\ CalcIdle
    /\ RefIdle /\ CallIdle /\ NormalsIdle /\ IndexerIdle /\ UnprojectIdle

NextCalc ==
    \/ ConstructCalc
    \/ CallGet

SpecCalc == InitCalc /\ [][NextCalc]_vars

\* The sum of f(i) for i in lo .. hi.
RECURSIVE SumOver(_, _, _)
SumOver(f, lo, hi) == IF lo > hi THEN 0 ELSE f[lo] + SumOver(f, lo + 1, hi)

\* The digit of axis dim (from 0) of linear_idx in the mixed radix sizes,
\* axis 0 the least significant.
Digit(linear_idx, sizes, dim) ==
    (linear_idx \div Prod(SubSeq(sizes, 1, dim))) % sizes[dim + 1]

\* C11: get(linear_idx) returns, for each operand arg, the sum over the
\* axes dim < dims of k_dim * strides_[dim][arg] in the arithmetic of
\* index_t, where k_dim is the digit of linear_idx in the mixed radix
\* sizes_[0], sizes_[1], ... (axis 0 fastest); the axes from dims on add
\* nothing, whatever the arrays given hold there.
C11_GetOffsets ==
    (cpc = "got" /\ got.outcome = "value") =>
       \A arg \in DOMAIN got.offsets :
          /\ got.offsets[arg] =
                Wrap32(SumOver([i \in 1 .. calc.dims_ |->
                                  Digit(got.linear_idx, calc.sizes_, i - 1)
                                     * Wrap32(given.strides[arg][i])],
                               1, calc.dims_))
          /\ \A i \in 1 .. calc.dims_ : calc.sizes_[i] = given.sizes[i].rem

\* Reached: a calculator of two axes of extent greater than 1, asked for an
\* index whose digits on both axes are not 0, with two operands of
\* different offsets.
C11_Witness ==
    /\ cpc = "got"
    /\ got.outcome = "value"
    /\ calc.dims_ = 2
    /\ Digit(got.linear_idx, calc.sizes_, 0) > 0
    /\ Digit(got.linear_idx, calc.sizes_, 1) > 0
    /\ Len(got.offsets) = 2
    /\ got.offsets[1] # got.offsets[2]
    /\ got.offsets[1] > 0


\* get in unbounded integer arithmetic on the extents and strides given:
\* the offset of operand arg from axis dim on (dim from 0).  An extent of
\* 2^32 or more exceeds every linear index.
RECURSIVE ExactOffset(_, _, _, _)
ExactOffset(g, arg, dim, linear_idx) ==
    IF dim >= g.dims THEN 0
    ELSE LET size == g.sizes[dim + 1]
             mod == IF size.wraps > 0 THEN linear_idx ELSE linear_idx % size.rem
             rest == IF size.wraps > 0 THEN 0 ELSE linear_idx \div size.rem
         IN mod * g.strides[arg][dim + 1] + ExactOffset(g, arg, dim + 1, rest)

\* The maximum offset of operand arg, the sum of (extent - 1) * stride, is
\* smaller than 2^31 - 1 bytes.
MaxOffsetFits(g, arg) ==
    /\ \A i \in 1 .. g.dims :
          g.sizes[i].wraps > 0 => g.strides[arg][i] = 0
    /\ SumOver([i \in 1 .. g.dims |->
                  IF g.sizes[i].wraps > 0 THEN 0
                  ELSE (g.sizes[i].rem - 1) * g.strides[arg][i]],
               1, g.dims) <= (MaxInt32 - 1) \div StrideUnit

\* linear_idx is below the product of the extents.
BelowNumWorkloads(g, linear_idx) ==
    \/ \E i \in 1 .. g.dims : g.sizes[i].wraps > 0
    \/ linear_idx < Prod([i \in 1 .. g.dims |-> g.sizes[i].rem])

GetIsExact ==
    /\ got.outcome = "value"
    /\ \A arg \in DOMAIN given.strides :
          got.offsets[arg] = ExactOffset(given, arg, 0, got.linear_idx)

\* C12 as stated: when every operand's maximum offset fits the 31-bit
\* bound, get with the 32-bit index type returns, for every linear_idx
\* below the product of the extents, the offsets of unbounded arithmetic.
C12_NeverWraps ==
    (/\ cpc = "got"
     /\ \A arg \in DOMAIN given.strides : MaxOffsetFits(given, arg)
     /\ BelowNumWorkloads(given, got.linear_idx))
       => GetIsExact

\* C12, amended: the same when, in addition, the product of the extents is
\* below 2^31, so that every extent and every linear index fits index_t.
C12_NeverWrapsBelowBound ==
    (/\ cpc = "got"
     /\ \A arg \in DOMAIN given.strides : MaxOffsetFits(given, arg)
     /\ \A i \in 1 .. given.dims : given.sizes[i].wraps = 0
     /\ BelowNumWorkloads(given, got.linear_idx))
       => GetIsExact

\* Reached: an offset of more than 2^30 bytes computed exactly, with a
\* stride beyond 2^32 bytes on an axis of extent 1.
C12_Witness ==
    /\ cpc = "got"
    /\ \A arg \in DOMAIN given.strides : MaxOffsetFits(given, arg)
    /\ given.dims = 2
    /\ \A i \in 1 .. given.dims : given.sizes[i].wraps = 0
    /\ BelowNumWorkloads(given, got.linear_idx)
    /\ given.strides[1][2] > IndexModulus
    /\ got.outcome = "value"
    /\ got.offsets[1] > IndexModulus \div 4

(***************************************************************************)
(* TensorRef as an object: shape_ and byte_strides_ are arrays of MAX_DIMS *)
(* entries.                                                                *)
(***************************************************************************)
\* What the entries the constructor does not write may hold.
Indeterminate == {[shape |-> 1, stride |-> 0], [shape |-> 7, stride |-> 5]}

\* The tensors referenced: ranks 0 to 3, and one of rank MAX_DIMS + 1.
RefShapes ==
    {<<>>, <<2>>, <<2, 3>>, <<1, 2, 3>>, <<3, 2, 2>>,
     [i \in 1 .. MAX_DIMS + 1 |-> 1]}

\* TensorRef(const Tensor& t): the entries below ndims_ are those of t, the
\* others are left as they were.
TensorRefObject(t, junk) ==
    LET tr == TensorRefOf(t)
    IN [tr EXCEPT
          !.shape_ = [i \in 1 .. MAX_DIMS |->
                        IF i <= tr.ndims_ THEN tr.shape_[i] ELSE junk.shape],
          !.byte_strides_ = [i \in 1 .. MAX_DIMS |->
                               IF i <= tr.ndims_ THEN tr.byte_strides_[i]
                               ELSE junk.stride]]

\* dims is a permutation of [0, ndims).
IsPermutation(dims, ndims) ==
    /\ Len(dims) = ndims
    /\ \A d \in 0 .. ndims - 1 : \E i \in 1 .. ndims : dims[i] = d

\* The outcomes of tr.Permute(dims).  The length is checked first; then
\* seen_dims[dim] is written for every dim of dims before any dim is
\* checked, which is undefined for a dim outside [0, ndims): the write is
\* lost and the check on seen_dims raises, or memory is corrupted.
PermuteOutcomes(tr, dims) ==
    IF Len(dims) # tr.ndims_
    THEN {[rpc |-> "error", ref |-> tr]}
    ELSE IF \E i \in 1 .. Len(dims) : dims[i] < 0 \/ dims[i] >= tr.ndims_
    THEN {[rpc |-> "error", ref |-> tr], [rpc |-> "undefined", ref |-> tr]}
    ELSE IF ~(\A d \in 0 .. tr.ndims_ - 1 : \E i \in 1 .. Len(dims) : dims[i] = d)
    THEN {[rpc |-> "error", ref |-> tr]}
    ELSE {[rpc |-> "permuted", ref |-> Permute(tr, dims)]}

\* ref = TensorRef(t); more than MAX_DIMS axes are an error.
ConstructRef ==
    /\ rpc = "new"
    /\ \E shape \in RefShapes, layout \in {"C", "F"}, junk \in Indeterminate :
          LET t == MakeTensor(shape, layout, 1, 4)
          IN IF Len(shape) > MAX_DIMS
             THEN rpc' = "error" /\ ref' = NoRef
             ELSE rpc' = "built" /\ ref' = TensorRefObject(t, junk)
    /\ UNCHANGED <<before, pdims>>
    /\ UNCHANGED <<unprojVars, idxVars, calcVars, callVars, normVars>>

\* The arguments tried on a reference of rank ndims: every sequence of
\* ndims - 1 to ndims + 1 axes from -1 .. ndims.
PermuteArgs(ndims) ==
    UNION {[1 .. len -> -1 .. ndims] :
              len \in {l \in {ndims - 1, ndims, ndims + 1} : l >= 0}}

\* At most this many Permute calls are made on a reference.
PermuteCalls == {1, 2}

\* ref.Permute(dims); before and pdims keep the reference before each call
\* and the argument of each call.
CallPermute ==
    /\ rpc \in {"built", "permuted"}
    /\ Len(pdims) + 1 \in PermuteCalls
    /\ \E dims \in PermuteArgs(ref.ndims_) :
          /\ \E o \in PermuteOutcomes(ref, dims) :
                rpc' = o.rpc /\ ref' = o.ref
          /\ pdims' = Append(pdims, dims)
    /\ before' = Append(before, ref)
    /\ UNCHANGED <<unprojVars, idxVars, calcVars, callVars, normVars>>

InitTensorRef ==
    /\ RefIdle
    /\ CalcIdle /\ CallIdle /\ NormalsIdle /\ IndexerIdle /\ UnprojectIdle

NextTensorRef ==
    \/ ConstructRef
    \/ CallPermute

SpecTensorRef == InitTensorRef /\ [][NextTensorRef]_vars

\* C14: every TensorRef built from a tensor of rank n <= MAX_DIMS holds
\* extent 1 and byte stride 0 at every index from n to MAX_DIMS - 1, also
\* after any Permute.
C14_NeutralPadding ==
    ref # NoRef =>
       \A i \in ref.ndims_ + 1 .. MAX_DIMS :
          ref.shape_[i] = 1 /\ ref.byte_strides_[i] = 0

\* The inverse of a permutation of [0, ndims).
Inverse(dims) ==
    [i \in 1 .. Len(dims) |-> (CHOOSE j \in 1 .. Len(dims) : dims[j] = i - 1) - 1]

Last(seq) == seq[Len(seq)]

\* C15: Permute(p) for a permutation p of [0, ndims) sets shape[i] and
\* stride[i] to the old shape[p[i]] and stride[p[i]] and leaves the data
\* pointer, the rank and the element size alone; Permute(p) followed by
\* Permute(inverse of p) restores shape and byte strides.
C15_PermuteRoundTrip ==
    (rpc = "permuted" /\ IsPermutation(Last(pdims), ref.ndims_)) =>
       /\ \A i \in 1 .. ref.ndims_ :
             /\ ref.shape_[i] = Last(before).shape_[Last(pdims)[i] + 1]
             /\ ref.byte_strides_[i] =
                   Last(before).byte_strides_[Last(pdims)[i] + 1]
       /\ ref.data_ptr_ = Last(before).data_ptr_
       /\ ref.ndims_ = Last(before).ndims_
       /\ ref.dtype_byte_size_ = Last(before).dtype_byte_size_
       /\ (Len(pdims) = 2 /\ pdims[2] = Inverse(pdims[1])) =>
             /\ ref.shape_ = before[1].shape_
             /\ ref.byte_strides_ = before[1].byte_strides_

\* Reached: a reference of three different strides permuted by a cycle of
\* length 3, which is not its own inverse, and then by the inverse.
C15_Witness ==
    /\ rpc = "permuted"
    /\ Len(pdims) = 2
    /\ pdims[1] = <<1, 2, 0>>
    /\ pdims[2] = Inverse(pdims[1])
    /\ pdims[2] # pdims[1]
    /\ before[2].shape_ # before[1].shape_
    /\ before[2].byte_strides_ # before[1].byte_strides_
    /\ ref.shape_ = before[1].shape_

\* C16: Permute(dims) fails with an invalid-argument error, before changing
\* any shape or stride entry, for every dims that is not a permutation of
\* [0, ndims): wrong length, a repeated axis, or an axis outside [0, ndims).
C16_PermuteRejects ==
    (pdims # <<>> /\ ~IsPermutation(Last(pdims), Last(before).ndims_)) =>
       rpc = "error" /\ ref = Last(before)

(***************************************************************************)
(* Checked calls on an Indexer: ShrinkDim with any arguments and the       *)
(* accessors with any operand index.                                       *)
(***************************************************************************)
\* ShrinkDim(dim, start, size) fails when dim is not an axis or when
\* start + size exceeds the master extent of the axis.
ShrinkDimRaisesOnSize(p, dim, start, size) ==
    \/ dim < 0 \/ dim >= p.ndims_
    \/ size > p.master_shape_[dim + 1]

ShrinkDimRaises(p, dim, start, size) ==
    \/ dim < 0 \/ dim >= p.ndims_
    \/ start + size > p.master_shape_[dim + 1]

\* Indexer::GetInput(i) and GetOutput(i): LogError for an index that is not
\* an operand's, the reference otherwise.
GetInput(p, i) ==
    IF i >= Len(p.inputs_) \/ i < 0
    THEN [raised |-> TRUE, value |-> <<>>]
    ELSE [raised |-> FALSE, value |-> p.inputs_[i + 1]]

GetOutput(p, i) ==
    IF i >= Len(p.outputs_) \/ i < 0
    THEN [raised |-> TRUE, value |-> <<>>]
    ELSE [raised |-> FALSE, value |-> p.outputs_[i + 1]]

\* What a pointer computed from an element of outputs_ that is not an
\* output (a default TensorRef, or beyond the array) may be.
StrayPointers == {nullptr, 0, 12}

\* Indexer::GetOutputPtr(output_idx, workload_idx): outputs_[output_idx] is
\* read whatever output_idx is.
GetOutputPtrAt(p, output_idx, workload_idx) ==
    IF output_idx >= 0 /\ output_idx < Len(p.outputs_)
    THEN {GetWorkloadDataPtr(p, p.outputs_[output_idx + 1], workload_idx)}
    ELSE IF workload_idx < 0 THEN {nullptr} ELSE StrayPointers

\* Base pointers of the tensors of the checked calls.
BasePointers == {0, 64}

TensorAt(shape, layout, base) ==
    [MakeTensor(shape, layout, 1, 4) EXCEPT !.data_ptr = base]

\* Indexer({input}, output) of a broadcasting operation on tensors at the
\* base pointers chosen.
ConstructBroadcastAt ==
    /\ ipc = "new"
    /\ \E oshape \in Shapes, olayout \in {"C", "F"}, ilayout \in {"C", "F"},
          ibase \in BasePointers, obase \in BasePointers :
          \E ishape \in BroadcastableTo(oshape) :
             Built(<<TensorAt(ishape, ilayout, ibase)>>,
                   TensorAt(oshape, olayout, obase), {})
    /\ UNCHANGED <<unprojVars, auxVars>>

\* Indexer({input}, output, dtype_policy, reduction_dims) likewise.
ConstructReductionAt ==
    /\ ipc = "new"
    /\ \E ishape \in Shapes \ {<<>>}, ilayout \in {"C", "F"},
          ibase \in BasePointers, obase \in BasePointers :
          \E rdims \in (SUBSET (0 .. Len(ishape) - 1)) \ {{}} :
             Built(<<TensorAt(ishape, ilayout, ibase)>>,
                   TensorAt(ReductionShape(ishape, rdims), "C", obase), rdims)
    /\ UNCHANGED <<unprojVars, auxVars>>

\* indexer.ShrinkDim(dim, start, size) with dim from -1 to ndims, start
\* from 0 to the extent and size from 1 to one more than the extent.
CallShrinkDim ==
    /\ ipc = "built"
    /\ call = NoCall
    /\ \E dim \in -1 .. plan.ndims_, start \in 0 .. MaxExtent,
          size \in 1 .. MaxExtent + 1 :
          LET raised == ShrinkDimRaises(plan, dim, start, size)
          IN /\ call' = [op |-> "ShrinkDim", dim |-> dim, start |-> start,
                         size |-> size, before |-> plan, raised |-> raised]
             /\ plan' = IF raised THEN plan ELSE ShrinkDim(plan, dim, start, size)
    /\ UNCHANGED <<ipc, inTensors, outTensor, reduction_dims, pre,
                   orig, vec, yielded, splits>>
    /\ UNCHANGED <<unprojVars, calcVars, refVars, normVars>>

\* Operand indices and workload indices tried on the accessors.
OperandIdxs == -1 .. 2
WorkloadIdxs(p) == {-1, 0, NumWorkloads(p) - 1}

\* indexer.GetInput(i).
CallGetInput ==
    /\ ipc = "built"
    /\ call = NoCall
    /\ \E i \in OperandIdxs :
          LET r == GetInput(plan, i)
          IN call' = [op |-> "GetInput", idx |-> i, w |-> 0,
                      raised |-> r.raised, value |-> r.value]
    /\ UNCHANGED idxVars
    /\ UNCHANGED <<unprojVars, calcVars, refVars, normVars>>

\* indexer.GetOutput(i).
CallGetOutput ==
    /\ ipc = "built"
    /\ call = NoCall
    /\ \E i \in OperandIdxs :
          LET r == GetOutput(plan, i)
          IN call' = [op |-> "GetOutput", idx |-> i, w |-> 0,
                      raised |-> r.raised, value |-> r.value]
    /\ UNCHANGED idxVars
    /\ UNCHANGED <<unprojVars, calcVars, refVars, normVars>>

\* indexer.GetInputPtr(input_idx, workload_idx).
CallGetInputPtr ==
    /\ ipc = "built"
    /\ call = NoCall
    /\ \E i \in OperandIdxs, w \in WorkloadIdxs(plan) :
          call' = [op |-> "GetInputPtr", idx |-> i, w |-> w,
                   raised |-> FALSE, value |-> GetInputPtr(plan, i, w)]
    /\ UNCHANGED idxVars
    /\ UNCHANGED <<unprojVars, calcVars, refVars, normVars>>

\* indexer.GetOutputPtr(output_idx, workload_idx).
CallGetOutputPtr ==
    /\ ipc = "built"
    /\ call = NoCall
    /\ \E i \in OperandIdxs, w \in WorkloadIdxs(plan) :
          \E ptr \in GetOutputPtrAt(plan, i, w) :
             call' = [op |-> "GetOutputPtr", idx |-> i, w |-> w,
                      raised |-> FALSE, value |-> ptr]
    /\ UNCHANGED idxVars
    /\ UNCHANGED <<unprojVars, calcVars, refVars, normVars>>

\* Indexer({input}, output) of an elementwise operation on two images
\* stored as (*, H, W), both contiguous; axes of extent above 1 are not
\* coalesced.
ConstructImageAt ==
    /\ ipc = "new"
    /\ \E shape \in ShapesOfRank(3), ibase \in BasePointers :
          Built(<<TensorAt(shape, "C", ibase)>>, TensorAt(shape, "C", 0), {})
    /\ UNCHANGED <<unprojVars, auxVars>>

\* Indexer::GetWorkload2DIdx(workload_idx, x, y).  With ndims_ < 2 the
\* assertion aborts, or in a build without assertions master_strides_ is
\* read before its first element.
GetWorkload2DIdx(p, workload_idx) ==
    IF p.ndims_ >= 2
    THEN {[outcome |-> "value",
           y |-> workload_idx \div p.master_strides_[p.ndims_ - 1],
           x |-> workload_idx % p.master_strides_[p.ndims_ - 1]]}
    ELSE {[outcome |-> "abort"], [outcome |-> "unspecified"]}

\* indexer.GetWorkload2DIdx(workload_idx, x, y) for every workload.
CallGetWorkload2DIdx ==
    /\ ipc = "built"
    /\ call = NoCall
    /\ \E w \in 0 .. NumWorkloads(plan) - 1 :
          \E r \in GetWorkload2DIdx(plan, w) :
             call' = [op |-> "GetWorkload2DIdx", w |-> w, result |-> r]
    /\ UNCHANGED idxVars
    /\ UNCHANGED <<unprojVars, calcVars, refVars, normVars>>

InitCalls == IndexerIdle /\ UnprojectIdle /\ AuxIdle

NextCalls ==
    \/ ConstructImageAt
    \/ CallGetWorkload2DIdx
    \/ ConstructBroadcastAt
    \/ ConstructReductionAt
    \/ CallShrinkDim
    \/ CallGetInput
    \/ CallGetOutput
    \/ CallGetInputPtr
    \/ CallGetOutputPtr

SpecCalls == InitCalls /\ [][NextCalls]_vars

(***************************************************************************)
(* Normal estimation: EstimatePointWiseNormalsWithFastEigen3x3.            *)
(* covariance_ptr holds a 3x3 matrix row by row: entry (i, j) is at index  *)
(* 3 * i + j of the C array, here at 3 * i + j + 1.  The entries are small *)
(* integers, on which the comparisons of the code are exact; the matrix    *)
(* divided by max_coeff is kept as numerators over one denominator.        *)
(***************************************************************************)
Variances == -1 .. 2

Covariances == {-1, 0, 1}

\* The symmetric matrix with the given diagonal and off-diagonal entries, in
\* the order the estimator reads it: A[0], A[4], A[8] and A[1], A[2], A[5].
SymmetricMatrix(xx, yy, zz, xy, xz, yz) ==
    <<xx, xy, xz,
      xy, yy, yz,
      xz, yz, zz>>

\* The loop over covariance_ptr[1 .. 8]: max_coeff is replaced by every
\* entry it is greater than.
RECURSIVE MaxCoeffLoop(_, _, _)

MaxCoeffLoop(cov, i, max_coeff) ==
    IF i > Len(cov)
    THEN max_coeff
    ELSE MaxCoeffLoop(cov, i + 1,
                      IF max_coeff > cov[i] THEN cov[i] ELSE max_coeff)

MaxCoeff(cov) == MaxCoeffLoop(cov, 2, cov[1])

\* A[i] = covariance_ptr[i] / max_coeff, for max_coeff # 0.
Scaled(cov, max_coeff) == [num |-> cov, den |-> max_coeff]

\* norm = A[1] * A[1] + A[2] * A[2] + A[5] * A[5].
Norm(A) ==
    [num |-> A.num[2] * A.num[2] + A.num[3] * A.num[3] + A.num[6] * A.num[6],
     den |-> A.den * A.den]

\* The call up to the test of norm: what it leaves in normals_ptr and the
\* branch taken.  The closed-form branch (norm > 0) goes on with the steps
\* ClampHalfDet and SelectEigenvector below.
EstimatePointWiseNormalsWithFastEigen3x3(cov) ==
    LET max_coeff == MaxCoeff(cov)
        A == Scaled(cov, max_coeff)
        norm == Norm(A)
    IN IF max_coeff = 0
       THEN [branch |-> "zero", normal |-> <<0, 0, 0>>]
       ELSE IF norm.num > 0
       THEN [branch |-> "eigen", step |-> "det", A |-> A]
       ELSE IF cov[1] < cov[5] /\ cov[1] < cov[9]
       THEN [branch |-> "diagonal", normal |-> <<1, 0, 0>>]
       ELSE IF cov[1] < cov[5] /\ cov[1] < cov[9]
       THEN [branch |-> "diagonal", normal |-> <<0, 1, 0>>]
       ELSE [branch |-> "diagonal", normal |-> <<0, 0, 1>>]

\* Scalars of the closed-form branch, kept as quotients with a positive
\* denominator.
Less(a, b) == a.num * b.den < b.num * a.den

Greater(a, b) == Less(b, a)

MinusOne == [num |-> -1, den |-> 1]

PlusOne == [num |-> 1, den |-> 1]

Zero == [num |-> 0, den |-> 1]

\* det as the division by p * p * p leaves it: sqrt and the rounding of the
\* quotient are not evaluated, any of these values may come out.
Dets == {[num |-> d, den |-> 1] : d \in -3 .. 3}

\* half_det = det * 0.5.
HalfDet(det) == [num |-> det.num, den |-> det.den * 2]

\* half_det = O3D_MIN(O3D_MAX(half_det, -1.0), 1.0) after the expansion of
\* the two macros, which put no parentheses around a, b or the result:
\*   half_det > -1.0 ? half_det
\*                   : -1.0 < 1.0 ? half_det > -1.0 ? half_det : -1.0 : 1.0
ClampHalfDet(half_det) ==
    IF Greater(half_det, MinusOne)
    THEN half_det
    ELSE IF Less(MinusOne, PlusOne)
         THEN IF Greater(half_det, MinusOne) THEN half_det ELSE MinusOne
         ELSE PlusOne

\* eval[0 .. 2] as acos, cos and the sums leave them: not evaluated, any
\* three of these values may come out.
EvalValues == 1 .. 3

EvalIdxs == 0 .. 2

\* The choice of the vector written to normals_ptr: its name, and the index
\* of the eigenvalue it belongs to (for the cross product of two computed
\* eigenvectors, the eigenvalue of neither).
SelectEigenvector(half_det, eval) ==
    IF ~Less(half_det, Zero)
    THEN IF eval[2] < eval[0] /\ eval[2] < eval[1]
         THEN [vector |-> "evec2", belongs |-> 2]
         ELSE IF eval[1] < eval[0] /\ eval[1] < eval[2]
         THEN [vector |-> "evec1", belongs |-> 1]
         ELSE [vector |-> "evec1 x evec2", belongs |-> 0]
    ELSE IF eval[0] < eval[1] /\ eval[0] < eval[2]
         THEN [vector |-> "evec0", belongs |-> 0]
         ELSE IF eval[1] < eval[0] /\ eval[1] < eval[2]
         THEN [vector |-> "evec1", belongs |-> 1]
         ELSE [vector |-> "evec0 x evec1", belongs |-> 2]

\* One call of the estimator on a covariance buffer, up to the test of norm.
CallEstimateNormals ==
    /\ normals_ptr = <<>>
    /\ \E xx \in Variances, yy \in Variances, zz \in Variances,
          xy \in Covariances, xz \in Covariances, yz \in Covariances :
          LET cov == SymmetricMatrix(xx, yy, zz, xy, xz, yz)
          IN /\ covariance_ptr' = cov
             /\ normals_ptr' = EstimatePointWiseNormalsWithFastEigen3x3(cov)
    /\ UNCHANGED <<points_ptr, indices_ptr>>
    /\ UNCHANGED <<unprojVars, idxVars, calcVars, refVars, callVars>>

\* Closed-form branch: det, half_det and the value handed to acos.
DoClampHalfDet ==
    /\ normals_ptr # <<>>
    /\ normals_ptr.branch = "eigen" /\ normals_ptr.step = "det"
    /\ \E det \in Dets :
          normals_ptr' = [branch |-> "eigen", step |-> "angle",
                          A |-> normals_ptr.A, det |-> det,
                          half_det |-> ClampHalfDet(HalfDet(det))]
    /\ UNCHANGED <<covariance_ptr, points_ptr, indices_ptr>>
    /\ UNCHANGED <<unprojVars, idxVars, calcVars, refVars, callVars>>

\* Closed-form branch: the eigenvalue estimates and the vector returned.
DoSelectEigenvector ==
    /\ normals_ptr # <<>>
    /\ normals_ptr.branch = "eigen" /\ normals_ptr.step = "angle"
    /\ \E eval \in [EvalIdxs -> EvalValues] :
          normals_ptr' = [branch |-> "eigen", step |-> "done",
                          A |-> normals_ptr.A, det |-> normals_ptr.det,
                          half_det |-> normals_ptr.half_det, eval |-> eval,
                          returned |->
                              SelectEigenvector(normals_ptr.half_det, eval)]
    /\ UNCHANGED <<covariance_ptr, points_ptr, indices_ptr>>
    /\ UNCHANGED <<unprojVars, idxVars, calcVars, refVars, callVars>>

InitNormals ==
    /\ NormalsIdle
    /\ CalcIdle /\ RefIdle /\ CallIdle /\ IndexerIdle /\ UnprojectIdle

NextNormals ==
    \/ CallEstimateNormals
    \/ DoClampHalfDet
    \/ DoSelectEigenvector

SpecNormals == InitNormals /\ [][NextNormals]_vars

(***************************************************************************)
(* Covariance: EstimatePointWiseCovariance.                                *)
(* points_ptr holds three coordinates per point; an entry of indices_ptr   *)
(* is the offset of a point's first coordinate, as the code uses it.  The  *)
(* coordinates are small integers; a cumulant divided by the count and an  *)
(* entry of the result are kept as quotients.                              *)
(***************************************************************************)
Coordinates == 0 .. 2

NumPoints == {2}

NeighbourCounts == {1, 2}

\* cumulants[0 .. 8] after the loop over the neighbours, here 1 .. 9.
RECURSIVE Cumulants(_, _, _)

Cumulants(pts, indices, i) ==
    IF i = 0
    THEN [k \in 1 .. 9 |-> 0]
    ELSE LET c == Cumulants(pts, indices, i - 1)
             idx == indices[i]
             x == pts[idx + 1]
             y == pts[idx + 2]
             z == pts[idx + 3]
         IN <<c[1] + x, c[2] + y, c[3] + z,
              c[4] + x * x, c[5] + x * y, c[6] + x * z,
              c[7] + y * y, c[8] + y * z, c[9] + z * z>>

\* a - b * c for the quotients a / n, b / n and c / n.
CentralMoment(a, b, c, num) == [num |-> a * num - b * c, den |-> num * num]

\* The nine entries written to covariance_ptr, in the order of the buffer.
EstimatePointWiseCovariance(pts, indices) ==
    LET num_indices == Len(indices)
        cumulants == Cumulants(pts, indices, num_indices)
        M(a, b, c) ==
            CentralMoment(cumulants[a + 1], cumulants[b + 1],
                          cumulants[c + 1], num_indices)
        out0 == M(3, 0, 0)
        out1 == M(6, 1, 1)
        out2 == M(8, 2, 2)
        out3 == M(4, 0, 1)
        out4 == out1
        out5 == M(5, 0, 2)
        out6 == out2
        out7 == M(7, 1, 2)
        out8 == out5
    IN <<out0, out1, out2, out3, out4, out5, out6, out7, out8>>

\* One call of the kernel on a point buffer and a neighbour list.
CallEstimateCovariance ==
    /\ points_ptr = <<>>
    /\ \E np \in NumPoints, indices_size \in NeighbourCounts :
          \E pts \in [1 .. 3 * np -> Coordinates],
             indices \in [1 .. indices_size -> {3 * k : k \in 0 .. np - 1}] :
             /\ points_ptr' = pts
             /\ indices_ptr' = indices
             /\ covariance_ptr' = EstimatePointWiseCovariance(pts, indices)
    /\ UNCHANGED normals_ptr
    /\ UNCHANGED <<unprojVars, idxVars, calcVars, refVars, callVars>>

InitCovariance ==
    /\ NormalsIdle
    /\ CalcIdle /\ RefIdle /\ CallIdle /\ IndexerIdle /\ UnprojectIdle

NextCovariance ==
    \/ CallEstimateCovariance

SpecCovariance == InitCovariance /\ [][NextCovariance]_vars

(***************************************************************************)
(* Claims about the indexing engine.                                       *)
(***************************************************************************)
Workloads(p) == 0 .. NumWorkloads(p) - 1

\* What a plan visits: for each workload, the pointers it resolves to, one
\* per operand.
VisitedAt(p, w) ==
    [inputs |-> [k \in DOMAIN p.inputs_ |-> GetInputPtr(p, k - 1, w)],
     outputs |-> [k \in DOMAIN p.outputs_ |->
                    GetWorkloadDataPtr(p, p.outputs_[k], w)]]

Visited(p) == {VisitedAt(p, w) : w \in Workloads(p)}

RECURSIVE SumWorkloads(_)
SumWorkloads(ps) ==
    IF ps = <<>> THEN 0 ELSE NumWorkloads(Head(ps)) + SumWorkloads(Tail(ps))

\* C4: when SplitTo32BitIndexing has iterated a plan beyond the 32-bit
\* bound to its end, the NumWorkloads of the sub-plans it yielded sum to the
\* plan's NumWorkloads, their visited sets are pairwise disjoint, and the
\* union of their visited sets is the plan's visited set.
C4_SplitPartitions ==
    (ipc = "done" /\ ~CanUse32BitIndexing(orig)) =>
       /\ SumWorkloads(yielded) = NumWorkloads(orig)
       /\ \A i, j \in DOMAIN yielded :
             i # j => Visited(yielded[i]) \cap Visited(yielded[j]) = {}
       /\ UNION {Visited(yielded[i]) : i \in DOMAIN yielded} = Visited(orig)

\* Reached: a plan beyond the bound split into three or more sub-plans, one
\* of whose inputs is broadcast, so that two sub-plans read the same input
\* offsets.
C4_Witness ==
    /\ ipc = "done"
    /\ ~CanUse32BitIndexing(orig)
    /\ Len(yielded) >= 3
    /\ \E i, j \in DOMAIN yielded :
          /\ i # j
          /\ {v.inputs[1] : v \in Visited(yielded[i])} \cap
             {v.inputs[1] : v \in Visited(yielded[j])} # {}

\* Every offset a plan reaches, in bytes from the operand's base, is smaller
\* than 2^31 - 1: k units are k * StrideUnit bytes, and k * StrideUnit is
\* below 2^31 - 1 exactly when k is at most (2^31 - 2) \div StrideUnit.
Fits32(p) ==
    \A tr \in Operands(p) : \A w \in Workloads(p) :
       GetWorkloadDataPtr(p, tr, w) - tr.data_ptr_ <= (MaxInt32 - 1) \div StrideUnit

\* C5: the splitting of SplitTo32BitIndexing terminates and yields only
\* sub-plans that can use 32-bit indexing: every sub-plan yielded fits the
\* bound, a plan that does not fit can always be split, and the number of
\* splits stays below the number of workloads of the plan iterated.
C5_SplitTerminates ==
    /\ \A i \in DOMAIN yielded : Fits32(yielded[i])
    /\ (ipc = "iter" /\ vec # <<>> /\ ~CanUse32BitIndexing(vec[Len(vec)]))
          => CanSplit(vec[Len(vec)])
    /\ ipc \in {"iter", "at", "done"} => splits < NumWorkloads(orig)
    /\ ipc = "done" => Len(yielded) = splits + 1

C5_Witness ==
    /\ ipc = "done"
    /\ splits >= 3
    /\ Len(yielded) = splits + 1

\* C6: coalescing changes nothing the plan visits: the coalesced plan has
\* the NumWorkloads of the uncoalesced plan and, for every workload index,
\* resolves every operand to the same byte offset.
C6_CoalescePreservesOffsets ==
    pre # NoPlan =>
       LET co == CoalesceDimensions(pre)
       IN /\ NumWorkloads(co) = NumWorkloads(pre)
          /\ \A w \in Workloads(pre) :
                /\ \A k \in DOMAIN pre.inputs_ :
                      GetWorkloadDataPtr(co, co.inputs_[k], w) =
                      GetWorkloadDataPtr(pre, pre.inputs_[k], w)
                /\ \A k \in DOMAIN pre.outputs_ :
                      GetWorkloadDataPtr(co, co.outputs_[k], w) =
                      GetWorkloadDataPtr(pre, pre.outputs_[k], w)

\* The plan is as the constructor left it.
AsConstructed == ipc = "built" /\ plan = CoalesceDimensions(pre)

\* C7: NumWorkloads of a constructed plan is the product of the master
\* extents: the product of the output tensor's extents for a broadcasting
\* operation, of the input tensor's extents for a reduction.
C7_NumWorkloads ==
    AsConstructed =>
       /\ NumWorkloads(plan) = Prod(pre.master_shape_)
       /\ reduction_dims = {} => NumWorkloads(plan) = Prod(outTensor.shape)
       /\ reduction_dims # {} => NumWorkloads(plan) = Prod(inTensors[1].shape)

\* Reached: a reduction whose input has more elements than its output,
\* constructed with two axes coalesced into one.
C7_Witness ==
    /\ AsConstructed
    /\ reduction_dims # {}
    /\ NumWorkloads(plan) > Prod(outTensor.shape)
    /\ plan.ndims_ < pre.ndims_

\* The multi-index of the element of tensor t at byte offset ptr.
ElementAt(t, ptr) ==
    CHOOSE m \in [1 .. Len(t.shape) -> 0 .. MaxExtent - 1] :
       /\ \A i \in 1 .. Len(t.shape) : m[i] < t.shape[i]
       /\ LET RECURSIVE Off(_)
              Off(i) == IF i > Len(t.shape) THEN 0
                        ELSE m[i] * t.strides[i] * t.dtype_byte_size + Off(i + 1)
          IN Off(1) = ptr

\* C8: in a plan constructed for a reduction, two workloads whose input
\* elements differ only along reduced axes resolve to the same output
\* offset; and IsReductionDim holds exactly on the axes whose output stride
\* is 0 and whose master extent exceeds 1, which before coalescing are the
\* reduced axes (permuted to the front) of extent greater than 1.
C8_ReductionOutput ==
    (AsConstructed /\ reduction_dims # {}) =>
       /\ \A w1, w2 \in Workloads(plan) :
             LET m1 == ElementAt(inTensors[1], GetInputPtr(plan, 0, w1))
                 m2 == ElementAt(inTensors[1], GetInputPtr(plan, 0, w2))
             IN (\A i \in DOMAIN m1 : (i - 1) \notin reduction_dims => m1[i] = m2[i])
                   => GetOutputPtr(plan, w1) = GetOutputPtr(plan, w2)
       /\ \A dim \in 0 .. plan.ndims_ - 1 :
             IsReductionDim(plan, dim) <=>
                (plan.outputs_[1].byte_strides_[dim + 1] = 0
                    /\ plan.master_shape_[dim + 1] > 1)
       /\ \A dim \in 0 .. pre.ndims_ - 1 :
             IsReductionDim(pre, dim) <=>
                (dim < Cardinality(reduction_dims) /\ pre.master_shape_[dim + 1] > 1)

\* Reached: a reduction in which two workloads share an output element and
\* two do not.
C8_Witness ==
    /\ AsConstructed
    /\ reduction_dims # {}
    /\ \E w1, w2 \in Workloads(plan) :
          w1 # w2 /\ GetOutputPtr(plan, w1) = GetOutputPtr(plan, w2)
    /\ \E w1, w2 \in Workloads(plan) :
          GetOutputPtr(plan, w1) # GetOutputPtr(plan, w2)

\* C9: BroadcastRestride gives the source the destination's rank d: the
\* omitted leading axes get extent 1 and stride 0, an axis of source extent
\* 1 and destination extent greater than 1 gets stride 0, every other axis
\* keeps its extent and stride, right-aligned; the documented example gives
\* shape [1,2,1,1,3] and strides [0,3,0,3,1].
C9_BroadcastRestride ==
    (pre # NoPlan /\ reduction_dims = {}) =>
       /\ \A k \in DOMAIN inTensors :
             LET t == inTensors[k]
                 d == Len(outTensor.shape)
                 omitted == d - Len(t.shape)
                 r == pre.inputs_[k]
             IN /\ r.ndims_ = d
                /\ Len(r.shape_) = d /\ Len(r.byte_strides_) = d
                /\ \A i \in 1 .. d :
                      IF i <= omitted
                      THEN r.shape_[i] = 1 /\ r.byte_strides_[i] = 0
                      ELSE /\ r.shape_[i] = t.shape[i - omitted]
                           /\ r.byte_strides_[i] =
                                 IF t.shape[i - omitted] = 1 /\ outTensor.shape[i] > 1
                                 THEN 0
                                 ELSE t.strides[i - omitted] * t.dtype_byte_size
       /\ inTensors = <<DocSrc>> =>
             /\ pre.inputs_[1].shape_ = <<1, 2, 1, 1, 3>>
             /\ pre.inputs_[1].byte_strides_ = <<0, 3, 0, 3, 1>>

\* Reached: the documented example, restrided.
C9_Witness ==
    /\ pre # NoPlan
    /\ inTensors = <<DocSrc>>
    /\ outTensor = DocDst
    /\ pre.inputs_[1].byte_strides_ = <<0, 3, 0, 3, 1>>

\* C10: in every plan reached by construction, ShrinkDim and
\* SplitLargestDim, every operand's extent on every axis is 1 or the master
\* extent.
C10_BroadcastCompatible ==
    plan # NoPlan =>
       \A tr \in Operands(plan) : \A i \in 1 .. plan.ndims_ :
          tr.shape_[i] = 1 \/ tr.shape_[i] = plan.master_shape_[i]

\* The row-major multi-index of workload w in the master shape: axis i
\* (from 1) counts the blocks of the axes behind it.
MultiIndex(p, w) ==
    [i \in 1 .. p.ndims_ |->
       (w \div Prod(SubSeq(p.master_shape_, i + 1, p.ndims_)))
          % p.master_shape_[i]]

PointerAt(p, tr, w) ==
    tr.data_ptr_
       + SumOver([i \in 1 .. p.ndims_ |-> MultiIndex(p, w)[i] * tr.byte_strides_[i]],
                 1, p.ndims_)

\* C13: for every operand of a plan and every workload index w below
\* NumWorkloads, GetInputPtr and GetOutputPtr return the operand's base
\* pointer plus the sum over the axes of k_i * byte_strides[i], where k is
\* the row-major multi-index of w in the master shape.
C13_PointerResolution ==
    plan # NoPlan =>
       \A w \in Workloads(plan) :
          /\ \A k \in DOMAIN plan.inputs_ :
                GetInputPtr(plan, k - 1, w) = PointerAt(plan, plan.inputs_[k], w)
          /\ GetOutputPtr(plan, w) = PointerAt(plan, plan.outputs_[1], w)

\* Reached: a plan of two axes that was shrunk, with an input that is
\* broadcast on one axis and whose strides are not those of the master
\* shape, some workload of which is away from the base pointer.
C13_Witness ==
    /\ plan # NoPlan
    /\ plan.ndims_ = 2
    /\ plan.inputs_[1].data_ptr_ > 0
    /\ plan.inputs_[1].byte_strides_ # plan.outputs_[1].byte_strides_
    /\ \E i \in 1 .. 2 : plan.inputs_[1].byte_strides_[i] = 0
                            /\ plan.master_shape_[i] > 1
    /\ \E w \in Workloads(plan) :
          /\ w > 0
          /\ GetInputPtr(plan, 0, w) # plan.inputs_[1].data_ptr_
          /\ GetInputPtr(plan, 0, w) # GetOutputPtr(plan, w)

\* The workload of plan p whose row-major multi-index is m.
LinearIndex(p, m) ==
    SumOver([i \in 1 .. p.ndims_ |->
               m[i] * Prod(SubSeq(p.master_shape_, i + 1, p.ndims_))],
            1, p.ndims_)

\* C17: after a successful ShrinkDim(dim, start, size) the master extent of
\* axis dim is size, the other master extents are unchanged, and the
\* workload of multi-index k with k_dim = j resolves, for every operand, to
\* the address of the original plan's workload with k_dim = start + j.
C17_ShrinkDimVisits ==
    (call.op = "ShrinkDim" /\ ~call.raised) =>
       LET b == call.before
           d == call.dim + 1
       IN /\ plan.ndims_ = b.ndims_
          /\ \A i \in 1 .. plan.ndims_ :
                plan.master_shape_[i] =
                   IF i = d THEN call.size ELSE b.master_shape_[i]
          /\ \A w \in Workloads(plan) :
                LET k == MultiIndex(plan, w)
                    w0 == LinearIndex(b, [k EXCEPT ![d] = k[d] + call.start])
                IN /\ w0 \in Workloads(b)
                   /\ \A i \in DOMAIN plan.inputs_ :
                         GetInputPtr(plan, i - 1, w) = GetInputPtr(b, i - 1, w0)
                   /\ GetOutputPtr(plan, w) = GetOutputPtr(b, w0)

\* Reached: an axis of extent 3 of a plan of two axes shrunk to its last
\* two indices, on tensors whose base pointers are not 0.
C17_Witness ==
    /\ call.op = "ShrinkDim"
    /\ ~call.raised
    /\ plan.ndims_ = 2
    /\ call.start = 1
    /\ call.size = 2
    /\ call.before.master_shape_[call.dim + 1] = 3
    /\ call.before.inputs_[1].data_ptr_ > 0
    /\ plan.inputs_[1].data_ptr_ > call.before.inputs_[1].data_ptr_
    /\ plan.outputs_[1].data_ptr_ > call.before.outputs_[1].data_ptr_

C19_OperandIndexRaises ==
    (/\ call.op \in {"GetInput", "GetOutput", "GetInputPtr", "GetOutputPtr"}
     /\ \/ call.idx < 0
        \/ call.idx >= (IF call.op \in {"GetInput", "GetInputPtr"}
                        THEN Len(plan.inputs_) ELSE Len(plan.outputs_)))
       => call.raised

\* master_strides_ of p are the default strides of its master_shape_.
DefaultMasterStrides(p) ==
    \A i \in 1 .. p.ndims_ :
       p.master_strides_[i]
           = IF i = p.ndims_ THEN 1
             ELSE p.master_strides_[i + 1] * p.master_shape_[i + 1]

\* C24: in every plan reached by construction, ShrinkDim, SplitLargestDim
\* and coalescing, master_strides_ is the row-major stride vector of the
\* current master_shape_.
C24_MasterStridesRowMajor ==
    /\ plan # NoPlan => DefaultMasterStrides(plan)
    /\ pre # NoPlan => DefaultMasterStrides(pre)
    /\ \A k \in DOMAIN vec : DefaultMasterStrides(vec[k])

\* Reached: a plan of two axes, the last of extent above 1, that ShrinkDim
\* or SplitLargestDim has changed since its construction.
C24_Witness ==
    /\ ipc = "built"
    /\ plan.ndims_ = 2
    /\ plan.master_shape_[2] > 1
    /\ plan.master_shape_ # CoalesceDimensions(pre).master_shape_

\* C25: on a plan of at least two axes, read as (*, H, W), GetWorkload2DIdx
\* of a workload below NumWorkloads yields a column x in [0, W) and a row y
\* in [0, H).
C25_Workload2DIdxInImage ==
    (call.op = "GetWorkload2DIdx" /\ plan.ndims_ >= 2) =>
        LET H == plan.master_shape_[plan.ndims_ - 1]
            W == plan.master_shape_[plan.ndims_]
        IN /\ call.result.outcome = "value"
           /\ 0 <= call.result.x /\ call.result.x < W
           /\ 0 <= call.result.y /\ call.result.y < H

(***************************************************************************)
(* Claims about normal estimation.                                         *)
(***************************************************************************)
ScalarIdentity(c) == SymmetricMatrix(c, c, c, 0, 0, 0)

\* The variance of a coordinate is never negative.
Scalars == {c \in Variances : c >= 0}

IsScalarIdentity(cov) == \E c \in Scalars : cov = ScalarIdentity(c)

UnitAxes == {<<1, 0, 0>>, <<0, 1, 0>>, <<0, 0, 1>>}

\* C20: on a covariance matrix that is a scalar multiple c of the identity
\* (c = 0 included) the estimator returns a unit coordinate axis, and the
\* same axis for every c.
C20_ScalarIdentityAxis ==
    IsScalarIdentity(covariance_ptr) =>
        /\ normals_ptr.branch # "eigen"
        /\ normals_ptr.normal \in UnitAxes
        /\ \A c \in Scalars :
              EstimatePointWiseNormalsWithFastEigen3x3(ScalarIdentity(c)).normal
                  = normals_ptr.normal

Same(a, b) == a.num * b.den = b.num * a.den

Min(a, b) == IF Less(a, b) THEN a ELSE b

Max(a, b) == IF Greater(a, b) THEN a ELSE b

Clamped == normals_ptr # <<>> /\ normals_ptr.branch = "eigen"
               /\ normals_ptr.step \in {"angle", "done"}

\* C21: the value handed to acos is min(max(det * 0.5, -1), 1) and lies in
\* [-1, 1], for every det.
C21_HalfDetClamped ==
    Clamped =>
        /\ Same(normals_ptr.half_det,
                Min(Max(HalfDet(normals_ptr.det), MinusOne), PlusOne))
        /\ ~Less(normals_ptr.half_det, MinusOne)
        /\ ~Greater(normals_ptr.half_det, PlusOne)

\* The diagonal of the buffer, by axis, and the unit vector of an axis.
Diagonal(cov) == [k \in EvalIdxs |-> cov[4 * k + 1]]

Axis(k) == [i \in 1 .. 3 |-> IF i = k + 1 THEN 1 ELSE 0]

\* A covariance matrix with no covariance between two coordinates.
IsDiagonalCovariance(cov) ==
    /\ cov # <<>>
    /\ \A i \in DOMAIN cov : (\A k \in EvalIdxs : i # 4 * k + 1) => cov[i] = 0
    /\ \A k \in EvalIdxs : Diagonal(cov)[k] >= 0

StrictlySmallest(cov, k) ==
    \A j \in EvalIdxs \ {k} : Diagonal(cov)[k] < Diagonal(cov)[j]

\* C22: on a diagonal covariance matrix the estimator returns the unit
\* vector of the axis whose diagonal entry is strictly smallest, and one
\* fixed axis (the one it returns on the zero matrix) when the smallest
\* entry is tied.
C22_DiagonalSmallestAxis ==
    IsDiagonalCovariance(covariance_ptr) =>
        /\ normals_ptr.branch # "eigen"
        /\ \A k \in EvalIdxs :
              StrictlySmallest(covariance_ptr, k)
                  => normals_ptr.normal = Axis(k)
        /\ (\A k \in EvalIdxs : ~StrictlySmallest(covariance_ptr, k))
              => /\ normals_ptr.normal \in UnitAxes
                 /\ normals_ptr.normal
                        = EstimatePointWiseNormalsWithFastEigen3x3(
                              ScalarIdentity(0)).normal

Selected == normals_ptr # <<>> /\ normals_ptr.branch = "eigen"
                /\ normals_ptr.step = "done"

Coordinate(k, i) == points_ptr[indices_ptr[k] + i + 1]

\* mean(c_i * c_j) - mean(c_i) * mean(c_j) over the neighbours.
Covariance(i, j) ==
    LET size == Len(indices_ptr)
    IN [num |-> size * SumOver([k \in 1 .. size |->
                                Coordinate(k, i) * Coordinate(k, j)], 1, size)
                - SumOver([k \in 1 .. size |-> Coordinate(k, i)], 1, size)
                  * SumOver([k \in 1 .. size |-> Coordinate(k, j)], 1, size),
        den |-> size * size]

\* C23: the output of EstimatePointWiseCovariance, read row by row as a 3x3
\* matrix, is the symmetric covariance matrix of the neighbours' coordinates.
C23_CovarianceLayout ==
    points_ptr # <<>> =>
        \A i \in EvalIdxs, j \in EvalIdxs :
            /\ Same(covariance_ptr[3 * i + j + 1], Covariance(i, j))
            /\ Same(covariance_ptr[3 * i + j + 1],
                    covariance_ptr[3 * j + i + 1])

=============================================================================
